---- MODULE Spec2Model ----
(***************************************************************************)
(* A model of the adaptive control subsystem of the transfer-agent         *)
(* platform: the DQN scheduling optimizer (replay buffer, train step,      *)
(* soft update, persistence) of src/ai/models/scheduling_optimizer.py and  *)
(* the PPO resource allocator with its simulated environment of            *)
(* src/ai/models/resource_allocator.py.                                    *)
(*                                                                         *)
(* Real numbers are modelled in fixed point over the integers; the scale   *)
(* of each quantity is named where it is introduced.                       *)
(***************************************************************************)
EXTENDS Integers, Sequences, FiniteSets, TLC

VARIABLES
    buffer,          \* ReplayBuffer.buffer: the deque of stored experiences
    history,         \* ghost: every experience ever pushed, in push order
    q_network,       \* SchedulingOptimizer.q_network parameters
    target_network,  \* SchedulingOptimizer.target_network parameters
    opt_state,       \* SchedulingOptimizer.optimizer state (Adam moments)
    epsilon,         \* SchedulingOptimizer.epsilon, scaled by EpsScale
    step_count,      \* SchedulingOptimizer.step_count
    sched_metadata,  \* SchedulingOptimizer.model_metadata
    sched_fs,        \* the version directories under the scheduler's model_dir
    sched_ready,     \* ghost: train or load_model has completed on the scheduler
    netUpdates,      \* ghost: number of calls that wrote network parameters
    trace,           \* ghost: the writes of train_step and _soft_update, in order
    sampler,         \* the learner's call of ReplayBuffer.sample in progress, if any
    agents,          \* ResourceAllocationEnv.agents
    current_step,    \* ResourceAllocationEnv.current_step
    actor,           \* ResourceAllocator.actor parameters (an abstract identifier)
    critic,          \* ResourceAllocator.critic parameters (an abstract identifier)
    alloc_metadata,  \* ResourceAllocator.model_metadata
    alloc_fs,        \* the version directories under the allocator's model_dir
    alloc_ready,     \* ghost: train or load_model has completed on the allocator
    updater,         \* the trainer's call of _update_policy in progress, if any
    ret,             \* the last call: its name, its outcome and what it returned
    pre              \* ghost: the optimizers' fields as they were before the last call

schedVars == <<buffer, history, q_network, target_network, opt_state, epsilon,
               step_count, sched_metadata, sched_fs, sched_ready, netUpdates, trace, sampler>>

allocVars == <<agents, current_step, actor, critic, alloc_metadata, alloc_fs, alloc_ready,
               updater>>

vars == <<schedVars, allocVars, ret, pre>>

----------------------------------------------------------------------------
(* Bounds of the model *)

\* ReplayBuffer capacity (the constructor's parameter; 50000 in the optimizer)
Capacity == 3
\* SchedulingOptimizer.batch_size (64 in the optimizer), scaled to the capacity
BatchSize == 2
\* how many experiences are pushed in one behaviour
MaxPushes == 5
\* number of parameters of each Q-network
NParams == 2

----------------------------------------------------------------------------
(* Helpers *)

Min(a, b) == IF a <= b THEN a ELSE b

Max(a, b) == IF a >= b THEN a ELSE b

\* the last n elements of s (all of s when it has fewer)
LastN(s, n) == SubSeq(s, Max(1, Len(s) - n + 1), Len(s))

\* sequences of k pairwise distinct positions of 1..n
DistinctIdx(n, k) ==
    {f \in [1..k -> 1..n] : \A i, j \in 1..k : f[i] = f[j] => i = j}

----------------------------------------------------------------------------
(* Experience and ReplayBuffer *)

\* Experience = namedtuple(state, action, reward, next_state, done); states are
\* abstract identifiers, rewards are integers
ExperienceSet ==
    { [state |-> 0, action |-> 0, reward |-> 15, next_state |-> 1, done |-> TRUE],
      [state |-> 1, action |-> 6, reward |-> -20, next_state |-> 0, done |-> FALSE] }

\* a deque that ignores its maxlen and grows
DequeAppendUnbounded(d, e, maxlen) == Append(d, e)

\* deque(maxlen=capacity).append: a full deque drops its leftmost element
DequeAppend(d, e, maxlen) ==
    IF maxlen = 0 THEN d
    ELSE IF Len(d) >= maxlen THEN Append(Tail(d), e)
    ELSE Append(d, e)

\* ReplayBuffer.push
Push(buf, e) == DequeAppend(buf, e, Capacity)

\* random.sample(self.buffer, batch_size): the possible results
SampleResults(buf, k) ==
    { [i \in 1..k |-> buf[f[i]]] : f \in DistinctIdx(Len(buf), k) }

\* the fields of the two optimizers, recorded before each call
Snapshot ==
    [buffer |-> buffer, q_network |-> q_network, target_network |-> target_network,
     opt_state |-> opt_state, epsilon |-> epsilon, step_count |-> step_count,
     trace |-> trace, current_step |-> current_step,
     actor |-> actor, critic |-> critic, alloc_metadata |-> alloc_metadata,
     metadata |-> sched_metadata]


----------------------------------------------------------------------------
(* Initial state: SchedulingOptimizer.__init__ *)

\* network parameters are in thousandths
ParamScale == 10 ^ 3

ParamVals == {0, ParamScale}

\* the parameter vectors a network can be initialised to or stepped to
ParamVecs == [1..NParams -> ParamVals]

\* epsilon is in millionths
EpsScale == 10 ^ 6

\* self.epsilon = 1.0
EpsilonInit == EpsScale

\* self.epsilon_decay = 0.995 = EpsDecayNum / EpsDecayDen
EpsDecayNum == 995

EpsDecayDen == 1000

\* self.epsilon_min = 0.01
EpsilonMin == EpsScale \div 100

\* self.tau = 0.005 = TauNum / TauDen
TauNum == 5

TauDen == 1000

\* self.model_metadata = {}
EmptyMetadata == [kind |-> "empty"]

\* a version directory that does not exist
NoDir == [exists |-> FALSE]

\* the version names save_model and load_model are called with
Versions == {"v1", "v2"}

\* no call in progress
Idle == [pc |-> "idle"]

\* a / b rounded to the nearest integer (b > 0)
RoundDiv(a, b) == (2 * a + b) \div (2 * b)

SchedInit ==
    /\ buffer = <<>>
    /\ history = <<>>
    /\ q_network \in ParamVecs
    /\ target_network \in ParamVecs
    /\ opt_state = "init"
    /\ epsilon = EpsilonInit
    /\ step_count = 0
    /\ sched_metadata = EmptyMetadata
    /\ sched_fs = [v \in Versions |-> NoDir]
    /\ sched_ready = FALSE
    /\ netUpdates = 0
    /\ trace = <<>>
    /\ sampler = Idle

\* ResourceAllocationEnv.__init__ and ResourceAllocator.__init__
AllocInit ==
    /\ agents = <<>>
    /\ current_step = 0
    /\ actor = 0
    /\ critic = 0
    /\ alloc_metadata = EmptyMetadata
    /\ alloc_fs = [v \in Versions |-> NoDir]
    /\ alloc_ready = FALSE
    /\ updater = Idle

CallInit ==
    /\ ret = [op |-> "init", outcome |-> "ok"]
    /\ pre = Snapshot

----------------------------------------------------------------------------
(* ReplayBuffer operations *)

\* SchedulingOptimizer.store_experience(state, action, reward, next_state, done)
StoreExperience(E) ==
    \E e \in E :
        /\ Len(history) < MaxPushes
        /\ buffer' = Push(buffer, e)
        /\ history' = Append(history, e)
        /\ ret' = [op |-> "store_experience", outcome |-> "ok"]
        /\ pre' = Snapshot
        /\ UNCHANGED <<q_network, target_network, opt_state, epsilon, step_count,
                       sched_metadata, sched_fs, sched_ready, netUpdates, trace, sampler>>
        /\ UNCHANGED allocVars

\* a sample that takes the sampled experiences out of the deque
SampleCallPopping ==
    \E k \in 0..Capacity :
        /\ IF k > Len(buffer)
             THEN /\ ret' = [op |-> "sample", outcome |-> "ValueError", size |-> k]
                  /\ buffer' = buffer
             ELSE /\ ret' = [op |-> "sample", outcome |-> "ok", size |-> k,
                             batch |-> SubSeq(buffer, 1, k)]
                  /\ buffer' = SubSeq(buffer, k + 1, Len(buffer))
        /\ pre' = Snapshot
        /\ UNCHANGED <<history, q_network, target_network, opt_state, epsilon, step_count,
                       sched_metadata, sched_fs, sched_ready, netUpdates, trace, sampler>>
        /\ UNCHANGED allocVars

\* ReplayBuffer.sample(batch_size); random.sample raises ValueError when the
\* sample is larger than the population
SampleCall ==
    \E k \in 0..Capacity :
        /\ IF k > Len(buffer)
             THEN ret' = [op |-> "sample", outcome |-> "ValueError", size |-> k]
             ELSE \E b \in SampleResults(buffer, k) :
                     ret' = [op |-> "sample", outcome |-> "ok", size |-> k, batch |-> b]
        /\ pre' = Snapshot
        /\ UNCHANGED <<schedVars, allocVars>>

----------------------------------------------------------------------------
(* ReplayBuffer.sample step by step, as a learner thread runs it while producer
   threads call store_experience: the class holds no lock, and the interpreter
   can switch threads between any two of these steps. random.sample reads
   len(population) once and then population[j] for one index after another
   (the path it takes for a population too large to copy) *)

\* sample starts: n = len(self.buffer), ValueError when batch_size > n
SampleBegin ==
    /\ sampler.pc = "idle"
    /\ IF BatchSize > Len(buffer)
         THEN /\ sampler' = sampler
              /\ ret' = [op |-> "sample", outcome |-> "ValueError", size |-> BatchSize]
         ELSE /\ sampler' = [n |-> Len(buffer), pc |-> "picking", selected |-> {},
                             result |-> <<>>, started_on |-> buffer]
              /\ ret' = [op |-> "sample", outcome |-> "running", picked |-> 0]
    /\ pre' = Snapshot
    /\ UNCHANGED <<buffer, history, q_network, target_network, opt_state, epsilon,
                   step_count, sched_metadata, sched_fs, sched_ready, netUpdates, trace>>
    /\ UNCHANGED allocVars

\* one pick: an index j not selected before, result[i] = population[j]
SamplePick ==
    /\ sampler.pc = "picking"
    /\ Len(sampler.result) < BatchSize
    /\ \E j \in (1..sampler.n) \ sampler.selected :
           sampler' = [sampler EXCEPT !.selected = @ \cup {j},
                                      !.result = Append(@, buffer[j])]
    /\ ret' = [op |-> "sample", outcome |-> "running", picked |-> Len(sampler.result) + 1]
    /\ pre' = Snapshot
    /\ UNCHANGED <<buffer, history, q_network, target_network, opt_state, epsilon,
                   step_count, sched_metadata, sched_fs, sched_ready, netUpdates, trace>>
    /\ UNCHANGED allocVars

\* sample returns the batch
SampleEnd ==
    /\ sampler.pc = "picking"
    /\ Len(sampler.result) = BatchSize
    /\ sampler' = Idle
    /\ ret' = [op |-> "sample", outcome |-> "ok", size |-> BatchSize,
               batch |-> sampler.result, started_on |-> sampler.started_on]
    /\ pre' = Snapshot
    /\ UNCHANGED <<buffer, history, q_network, target_network, opt_state, epsilon,
                   step_count, sched_metadata, sched_fs, sched_ready, netUpdates, trace>>
    /\ UNCHANGED allocVars

----------------------------------------------------------------------------
(* Training: SchedulingOptimizer.train_step and _soft_update *)

\* the fields a training step reads and writes, as one record
Cur ==
    [buffer |-> buffer, history |-> history, q_network |-> q_network,
     target_network |-> target_network, opt_state |-> opt_state,
     epsilon |-> epsilon, netUpdates |-> netUpdates, trace |-> trace]

\* an optimizer built over the parameters of both networks
OptimizerStepBoth(nets, upd) ==
    [q_network |-> upd, target_network |-> upd, opt_state |-> "stepped"]

\* zero_grad, backward, clip_grad_norm_, optimizer.step(): the optimizer was
\* built over self.q_network.parameters(), so the step writes the online
\* network (to upd, whatever the gradient makes it) and the optimizer state
OptimizerStep(nets, upd) ==
    [q_network |-> upd, target_network |-> nets.target_network, opt_state |-> "stepped"]

\* a hard update: the target becomes a copy of the online network
SoftUpdateHard(i, tgt, loc) == loc

\* the loop of _soft_update from the i-th pair of zip(target, online) on:
\* target_param.data.copy_(tau * local_param.data + (1 - tau) * target_param.data)
RECURSIVE SoftUpdateFrom(_, _, _)
SoftUpdateFrom(i, tgt, loc) ==
    IF i > NParams THEN tgt
    ELSE SoftUpdateFrom(i + 1,
            [tgt EXCEPT ![i] = RoundDiv(TauNum * loc[i] + (TauDen - TauNum) * tgt[i], TauDen)],
            loc)

\* SchedulingOptimizer._soft_update
SoftUpdate(tgt, loc) == SoftUpdateFrom(1, tgt, loc)

\* if self.epsilon > self.epsilon_min: self.epsilon *= self.epsilon_decay
DecayEpsilon(eps) ==
    IF eps > EpsilonMin THEN RoundDiv(eps * EpsDecayNum, EpsDecayDen) ELSE eps

\* a guard that stops train_step on an empty store only
TooFewExperiencesEmptyOnly(st) == Len(st.buffer) = 0

\* whether train_step returns {} without training
TooFewExperiences(st) == Len(st.buffer) < BatchSize

\* a target network that is swapped for the online one every second step
TargetStepPeriodic(st) ==
    IF st.netUpdates % 2 = 1
      THEN [st EXCEPT !.target_network = st.q_network,
                      !.trace = Append(st.trace, "_soft_update")]
      ELSE st

\* self._soft_update() inside train_step
TargetStep(st) ==
    [st EXCEPT !.target_network = SoftUpdate(st.target_network, st.q_network),
               !.trace = Append(st.trace, "_soft_update")]

\* the epsilon update that ends train_step
EpsilonStep(st) ==
    [st EXCEPT !.epsilon = DecayEpsilon(st.epsilon),
               !.trace = IF st.epsilon > EpsilonMin
                           THEN Append(st.trace, "epsilon_decay") ELSE st.trace]

\* SchedulingOptimizer.train_step on the fields st, the gradient step taking
\* the online network to upd: the optimizer step, then the soft update, then
\* the epsilon update
TrainStepFn(st, upd) ==
    IF TooFewExperiences(st) THEN st
    ELSE LET nets == OptimizerStep(st, upd)
             optimized == [st EXCEPT !.q_network = nets.q_network,
                                     !.target_network = nets.target_network,
                                     !.opt_state = nets.opt_state,
                                     !.trace = Append(st.trace, "optimizer.step")]
             done == EpsilonStep(TargetStep(optimized))
         IN [done EXCEPT !.netUpdates = st.netUpdates + 1]

\* the variables of Cur take the values of st
Install(st) ==
    /\ buffer' = st.buffer
    /\ history' = st.history
    /\ q_network' = st.q_network
    /\ target_network' = st.target_network
    /\ opt_state' = st.opt_state
    /\ epsilon' = st.epsilon
    /\ netUpdates' = st.netUpdates
    /\ trace' = st.trace

\* a call of train_step; U is the set of parameter vectors the gradient step
\* can lead to
TrainStep(U) ==
    \E upd \in U :
        /\ Install(TrainStepFn(Cur, upd))
        /\ ret' = IF TooFewExperiences(Cur)
                    THEN [op |-> "train_step", outcome |-> "empty"]
                    ELSE [epsilon |-> DecayEpsilon(epsilon), op |-> "train_step",
                          outcome |-> "ok"]
        /\ pre' = Snapshot
        /\ UNCHANGED <<step_count, sched_metadata, sched_fs, sched_ready, sampler>>
        /\ UNCHANGED allocVars

\* a call of _soft_update on its own
SoftUpdateCall ==
    /\ target_network' = SoftUpdate(target_network, q_network)
    /\ netUpdates' = netUpdates + 1
    /\ trace' = Append(trace, "_soft_update")
    /\ ret' = [op |-> "soft_update", outcome |-> "ok"]
    /\ pre' = Snapshot
    /\ UNCHANGED <<buffer, history, q_network, opt_state, epsilon, step_count,
                   sched_metadata, sched_fs, sched_ready, sampler>>
    /\ UNCHANGED allocVars

----------------------------------------------------------------------------
(* Real numbers of the environment and the allocator: exact fractions
   [n |-> numerator, d |-> denominator] in lowest terms with d > 0, and the
   floating-point NaN, which every operation propagates and every comparison
   answers with FALSE *)

NaN == [n |-> 0, d |-> 0]

IsNaN(x) == x.d = 0

Abs(a) == IF a < 0 THEN -a ELSE a

RECURSIVE GCD(_, _)
GCD(a, b) == IF b = 0 THEN a ELSE GCD(b, a % b)

\* the fraction n / d (d # 0) in lowest terms
Frac(n, d) ==
    LET g == GCD(Abs(n), Abs(d))
        sgn == IF d < 0 THEN -1 ELSE 1
    IN [n |-> sgn * (n \div g), d |-> sgn * (d \div g)]

R(k) == [n |-> k, d |-> 1]

RAdd(a, b) ==
    IF IsNaN(a) \/ IsNaN(b) THEN NaN ELSE Frac(a.n * b.d + b.n * a.d, a.d * b.d)

RSub(a, b) ==
    IF IsNaN(a) \/ IsNaN(b) THEN NaN ELSE Frac(a.n * b.d - b.n * a.d, a.d * b.d)

RMul(a, b) ==
    IF IsNaN(a) \/ IsNaN(b) THEN NaN ELSE Frac(a.n * b.n, a.d * b.d)

\* a / b; the divisors of the code are never zero where it divides
RDiv(a, b) ==
    IF IsNaN(a) \/ IsNaN(b) \/ b.n = 0 THEN NaN ELSE Frac(a.n * b.d, a.d * b.n)

RLt(a, b) == ~IsNaN(a) /\ ~IsNaN(b) /\ a.n * b.d < b.n * a.d

RLe(a, b) == ~IsNaN(a) /\ ~IsNaN(b) /\ a.n * b.d <= b.n * a.d

\* Python's min(a, b): b when b < a, else a
PyMin(a, b) == IF RLt(b, a) THEN b ELSE a

\* Python's max(a, b): b when b > a, else a
PyMax(a, b) == IF RLt(a, b) THEN b ELSE a

\* np.clip(x, 0, 1) of one component: minimum(maximum(x, 0), 1), which
\* propagates NaN
Clip01(x) ==
    IF IsNaN(x) THEN NaN
    ELSE IF RLt(x, R(0)) THEN R(0)
    ELSE IF RLt(R(1), x) THEN R(1)
    ELSE x

\* the sum of the sequence of numbers xs
RECURSIVE RSum(_)
RSum(xs) == IF xs = <<>> THEN R(0) ELSE RAdd(Head(xs), RSum(Tail(xs)))

----------------------------------------------------------------------------
(* ResourceAllocationEnv *)

\* max_agents of the environment and the allocator (10 by default)
MaxAgents == 2

\* total_bandwidth_mbps: int = 1000
TotalBandwidth == 1000

\* self.max_cpu_cores = 16
MaxCpuCores == 16

\* self.max_memory_gb = 64
MaxMemoryGb == 64

\* self.max_steps = 100
EnvMaxSteps == 100

\* the demands reset draws: a priority, a bandwidth demand in (10, 200), a cpu
\* demand in (0.5, 4), a memory demand in (1, 8)
AgentTemplates ==
    { [priority |-> "high", bandwidth_demand |-> R(150), cpu_demand |-> R(3),
       memory_demand |-> R(6)],
      [priority |-> "low", bandwidth_demand |-> R(50), cpu_demand |-> R(1),
       memory_demand |-> R(2)] }

\* the agent reset creates at index i (from 0) with the demands tpl
NewAgent(i, tpl) ==
    [priority |-> tpl.priority, bandwidth_demand |-> tpl.bandwidth_demand,
     cpu_demand |-> tpl.cpu_demand, memory_demand |-> tpl.memory_demand, id |-> i,
     current_bandwidth |-> R(0), current_cpu |-> R(0), current_memory |-> R(0),
     throughput |-> R(0), success_rate |-> R(1)]

\* the agent lists reset can create
ResetAgents ==
    UNION { { [i \in 1..n |-> NewAgent(i - 1, tpls[i])] : tpls \in [1..n -> AgentTemplates] }
            : n \in 1..MaxAgents }

\* the components an action vector is drawn from: below 0, 0, inside (0, 1),
\* above 1, and NaN
ActionVals == {R(-1), R(0), Frac(1, 2), R(2), NaN}

\* the action vectors step is called with: the action space has shape (max_agents,)
Actions == [1..MaxAgents -> ActionVals]

\* dividing the whole clipped vector by its sum, without slicing it to the agents
NormalizeActionUnsliced(action, n) ==
    LET clipped == [i \in 1..Len(action) |-> Clip01(action[i])]
        total == RSum(clipped)
    IN [i \in 1..Min(n, Len(action)) |->
            IF RLt(R(0), total) THEN RDiv(clipped[i], total) ELSE clipped[i]]

\* action = np.clip(action[:len(self.agents)], 0, 1)
\* if np.sum(action) > 0: action = action / np.sum(action)
NormalizeAction(action, n) ==
    LET clipped == [i \in 1..Min(n, Len(action)) |-> Clip01(action[i])]
        total == RSum(clipped)
    IN IF RLt(R(0), total)
         THEN [i \in 1..Len(clipped) |-> RDiv(clipped[i], total)]
         ELSE clipped

\* priority_multiplier
PriorityMultiplier(p) ==
    CASE p = "high" -> R(2) [] p = "medium" -> R(1) [] p = "low" -> Frac(1, 2)

\* a reward whose efficiency bonus tests the comparison the wrong way round
AgentRewardReversed(agent) ==
    LET base == RMul(RDiv(agent.throughput, R(100)), PriorityMultiplier(agent.priority))
        withSuccess == RAdd(base, RMul(agent.success_rate, R(10)))
    IN IF RLe(agent.current_bandwidth, agent.bandwidth_demand)
         THEN RAdd(withSuccess, R(5))
         ELSE withSuccess

\* ResourceAllocationEnv._calculate_agent_reward
AgentReward(agent) ==
    LET base == RMul(RDiv(agent.throughput, R(100)), PriorityMultiplier(agent.priority))
        withSuccess == RAdd(base, RMul(agent.success_rate, R(10)))
    IN IF RLe(agent.bandwidth_demand, agent.current_bandwidth)
         THEN RAdd(withSuccess, R(5))
         ELSE withSuccess

\* the body of step's loop for one agent given its normalized weight
AllocateAgent(agent, weight) ==
    LET allocated == RMul(weight, R(TotalBandwidth))
        ratio == RDiv(allocated, agent.bandwidth_demand)
        satisfaction == PyMin(ratio, R(1))
    IN [agent EXCEPT
            !.current_bandwidth = allocated,
            !.current_cpu = PyMin(RMul(agent.cpu_demand, ratio), R(MaxCpuCores)),
            !.current_memory = PyMin(RMul(agent.memory_demand, ratio), R(MaxMemoryGb)),
            !.throughput = RMul(RMul(allocated, satisfaction), Frac(4, 5)),
            !.success_rate = satisfaction]

\* the agents after step's loop
StepAgents(ags, weights) == [i \in 1..Len(ags) |-> AllocateAgent(ags[i], weights[i])]

\* the current bandwidths of a list of agents
Bandwidths(ags) == [i \in 1..Len(ags) |-> ags[i].current_bandwidth]

\* the bandwidths of a list of allocations
PlanBandwidths(allocs) == [i \in 1..Len(allocs) |-> allocs[i].bandwidth_mbps]

\* a reset that creates the agents and leaves the step counter where it was
ResetKeepingStep(AGS) ==
    \E ags \in AGS :
        /\ agents' = ags
        /\ current_step' = current_step
        /\ ret' = [op |-> "reset", outcome |-> "ok"]
        /\ pre' = Snapshot
        /\ UNCHANGED <<actor, critic, alloc_metadata, alloc_fs, alloc_ready, updater>>
        /\ UNCHANGED schedVars

\* ResourceAllocationEnv.reset, the random draws giving one of the agent lists AGS
ResetTo(AGS) ==
    \E ags \in AGS :
        /\ agents' = ags
        /\ current_step' = 0
        /\ ret' = [op |-> "reset", outcome |-> "ok"]
        /\ pre' = Snapshot
        /\ UNCHANGED <<actor, critic, alloc_metadata, alloc_fs, alloc_ready, updater>>
        /\ UNCHANGED schedVars

\* ResourceAllocationEnv.reset
Reset == ResetTo(ResetAgents)

\* ResourceAllocationEnv.step(action); the returned reward is given by its
\* parts: the agents' rewards, and whether the over-allocation penalty applies
StepWith(ACTS) ==
    \E action \in ACTS :
        \E weights \in {NormalizeAction(action, Len(agents))} :
        \E after \in {StepAgents(agents, weights)} :
        \E allocated \in {RSum(Bandwidths(after))} :
           /\ agents' = after
           /\ current_step' = current_step + 1
           /\ ret' = [action |-> action, done |-> (current_step + 1 >= EnvMaxSteps), op |-> "step",
                      outcome |-> "ok",
                      weights |-> weights,
                      agent_rewards |-> [i \in 1..Len(after) |-> AgentReward(after[i])],
                      over_allocated |-> RLt(R(TotalBandwidth), allocated)]
           /\ pre' = Snapshot
           /\ UNCHANGED <<actor, critic, alloc_metadata, alloc_fs, alloc_ready, updater>>
           /\ UNCHANGED schedVars

\* ResourceAllocationEnv.step(action) for any action vector
Step == StepWith(Actions)

----------------------------------------------------------------------------
(* ResourceAllocator: the decision path *)

\* the largest r with r * r <= x, by Newton's iteration from r
RECURSIVE SqrtIter(_, _)
SqrtIter(x, r) ==
    LET r2 == (r + x \div r) \div 2 IN IF r2 >= r THEN r ELSE SqrtIter(x, r2)

ISqrt(x) == IF x = 0 THEN 0 ELSE SqrtIter(x, x)

\* scores with a square root in them are in thousandths, rounded down
FScale == 10 ^ 3

\* the sums and the coefficient of variation, squared, of the numbers xs
\* (more than one, none NaN, of mean other than zero): np.std(xs) / np.mean(xs)
CvSquared(xs) ==
    LET n == R(Len(xs))
        mean == RDiv(RSum(xs), n)
        meanSq == RDiv(RSum([i \in 1..Len(xs) |-> RMul(xs[i], xs[i])]), n)
    IN RDiv(RSub(meanSq, RMul(mean, mean)), RMul(mean, mean))

\* cv = np.std(xs) / np.mean(xs) in thousandths: it has the sign of the mean
CvScaled(xs) ==
    LET c2 == CvSquared(xs)
        root == ISqrt((c2.n * FScale * FScale) \div c2.d)
    IN IF RLt(RSum(xs), R(0)) THEN -root ELSE root

\* ResourceAllocator._calculate_fairness_score on the bandwidths of the
\* allocations, in thousandths; max(0, nan) is 0
FairnessScore(bandwidths) ==
    IF Len(bandwidths) <= 1 THEN FScale
    ELSE IF RSum(bandwidths) = R(0) THEN FScale
    ELSE IF IsNaN(RSum(bandwidths)) THEN 0
    ELSE Max(0, FScale - CvScaled(bandwidths))

\* ResourceAllocator._calculate_efficiency_score
EfficiencyScore(bandwidths, total_bandwidth) ==
    LET utilization == IF RLt(R(0), total_bandwidth)
                         THEN RDiv(RSum(bandwidths), total_bandwidth) ELSE R(0)
    IN IF RLe(Frac(4, 5), utilization) /\ RLe(utilization, Frac(9, 10)) THEN R(1)
       ELSE IF RLt(utilization, Frac(4, 5)) THEN RDiv(utilization, Frac(4, 5))
       ELSE PyMax(R(0), RSub(R(1), RDiv(RSub(utilization, Frac(9, 10)), Frac(1, 10))))

\* ResourceAllocator._get_priority_weight
PriorityWeight(p) ==
    CASE p = "high" -> R(2) [] p = "low" -> Frac(1, 2) [] OTHER -> R(1)

\* the values a component of the actor's output takes: torch.sigmoid
SigmoidVals == {R(0), Frac(1, 2), R(1)}

\* get_action(state, deterministic=True): the actor's output, one component
\* per agent slot; the actor is left in training mode, so its dropout layers
\* draw a fresh mask in every call and the output is not a function of the
\* state alone
ActorOutputs == [1..MaxAgents -> SigmoidVals]

\* the agents a caller supplies: any number of them, more than max_agents too
SuppliedAgents ==
    UNION { { [i \in 1..n |-> [priority |-> tpls[i].priority,
                               bandwidth_demand |-> tpls[i].bandwidth_demand,
                               cpu_demand |-> tpls[i].cpu_demand,
                               memory_demand |-> tpls[i].memory_demand,
                               id |-> i]]
              : tpls \in [1..n -> AgentTemplates] }
            : n \in 0..(MaxAgents + 1) }

\* the allocation of allocate_resources' loop for one agent
Allocation(agent, a, total_bandwidth) ==
    LET bandwidth == RMul(a, total_bandwidth)
        cpu_ratio == PyMin(RDiv(bandwidth, agent.bandwidth_demand), R(1))
    IN [bandwidth_mbps |-> bandwidth,
        agent_id |-> agent.id,
        cpu_cores |-> RMul(agent.cpu_demand, cpu_ratio),
        memory_gb |-> RMul(agent.memory_demand, cpu_ratio),
        priority_weight |-> PriorityWeight(agent.priority),
        expected_throughput |-> RMul(bandwidth, Frac(4, 5))]

\* allocate_resources' loop: one allocation for every agent i < len(action)
Allocations(ags, action, total_bandwidth) ==
    [i \in 1..Min(Len(ags), Len(action)) |-> Allocation(ags[i], action[i], total_bandwidth)]

\* ResourceAllocator.allocate_resources(agents, system_metrics), with
\* system_metrics['total_bandwidth_mbps'] = 1000; it has no check of whether
\* the actor was trained or loaded, and every call returns a plan
AllocateResources(AGS, OUTS) ==
    \E ags \in AGS, action \in OUTS :
    \E allocs \in {Allocations(ags, action, R(TotalBandwidth))} :
        /\ ret' = [agents |-> ags, action |-> action,
                   op |-> "allocate_resources", outcome |-> "ok", allocations |-> allocs,
                   total_bandwidth_allocated |-> RSum(PlanBandwidths(allocs)),
                   fairness_score |-> FairnessScore(PlanBandwidths(allocs)),
                   efficiency_score |-> EfficiencyScore(PlanBandwidths(allocs), R(TotalBandwidth))]
        /\ pre' = Snapshot
        /\ UNCHANGED <<schedVars, allocVars>>

\* the bandwidths _calculate_fairness_score is called with on its own; a
\* negative one is action[i] * total_bandwidth of a negative
\* system_metrics['total_bandwidth_mbps']
BandwidthVals == {R(-250), R(0), R(250), R(1000)}

\* a call of _calculate_fairness_score on a list of allocations
FairnessCall ==
    \E n \in 0..(MaxAgents + 1) :
    \E bws \in [1..n -> BandwidthVals] :
        /\ ret' = [op |-> "fairness_score", outcome |-> "ok",
                   allocations |-> [i \in 1..n |-> [bandwidth_mbps |-> bws[i]]],
                   fairness_score |-> FairnessScore(bws)]
        /\ pre' = Snapshot
        /\ UNCHANGED <<schedVars, allocVars>>

----------------------------------------------------------------------------
(* SchedulingOptimizer: scheduling decision, train, save_model, load_model *)

Priorities == {"critical", "high", "medium", "low"}

\* current_time, in hours since a midnight; its hour of day is t % 24
Times == 0..47

\* the actions get_optimal_schedule can return for a priority at an hour of
\* day: a heuristic on the priority and the hour, random.choice among the
\* evening offsets for a low priority in business hours
ScheduleActions(hour, priority) ==
    IF priority = "critical" THEN {0}
    ELSE IF priority = "low"
           THEN IF 9 <= hour /\ hour <= 17 THEN {6, 7, 8, 9, 10} ELSE {0}
    ELSE {0}

\* SchedulingOptimizer.get_optimal_schedule; it reads no field of the
\* optimizer and has no check of whether the model was trained or loaded
GetOptimalSchedule(TS, PS) ==
    \E t \in TS, priority \in PS :
    \E a \in ScheduleActions(t % 24, priority) :
        /\ ret' = [action |-> a, op |-> "get_optimal_schedule",
                   outcome |-> "ok", priority |-> priority,
                   current_time |-> t, scheduled_time |-> t + a,
                   scheduled_hour |-> (t + a) % 24, delay_hours |-> a,
                   exploration |-> FALSE]
        /\ pre' = Snapshot
        /\ UNCHANGED <<schedVars, allocVars>>

\* self.update_every = 4
UpdateEvery == 4

\* the experiences _simulate_episode stores: the action of
\* get_optimal_schedule for the default priority, and done = True
EpisodeExperiences == {e \in ExperienceSet : e.action \in ScheduleActions(0, "medium") /\ e.done}

\* the loop of train from episode ep on: _simulate_episode stores exps[ep + 1],
\* and every update_every-th episode runs a train_step
RECURSIVE TrainEpisodes(_, _, _, _, _)
TrainEpisodes(ep, n, st, exps, upds) ==
    IF ep >= n THEN st
    ELSE LET stored == [st EXCEPT !.buffer = Push(st.buffer, exps[ep + 1]),
                                  !.history = Append(st.history, exps[ep + 1])]
             trained == IF ep % UpdateEvery = 0
                          THEN TrainStepFn(stored, upds[ep \div UpdateEvery + 1])
                          ELSE stored
         IN TrainEpisodes(ep + 1, n, trained, exps, upds)

\* SchedulingOptimizer.train(training_episodes) for training_episodes in NS
SchedTrain(NS, U) ==
    \E n \in NS :
        /\ Len(history) + n <= MaxPushes
        /\ \E exps \in [1..n -> EpisodeExperiences],
              upds \in [1..((n + UpdateEvery - 1) \div UpdateEvery) -> U] :
           \E st \in {TrainEpisodes(0, n, Cur, exps, upds)} :
               /\ Install(st)
               /\ sched_metadata' = [kind |-> "trained", training_episodes |-> n,
                                     final_epsilon |-> st.epsilon]
        /\ sched_ready' = TRUE
        /\ ret' = [op |-> "train", outcome |-> "ok", component |-> "scheduler"]
        /\ pre' = Snapshot
        /\ UNCHANGED <<step_count, sched_fs, sampler>>
        /\ UNCHANGED allocVars

\* a file of a version directory
File(x) == [present |-> TRUE, data |-> x]

\* SchedulingOptimizer.save_model(version)
SchedSave(VS) ==
    \E v \in VS :
        /\ sched_fs' = [sched_fs EXCEPT ![v] =
               [q_network |-> File(q_network),
                target_network |-> File(target_network),
                metadata |-> File(sched_metadata),
                exists |-> TRUE,
                optimizer |-> File(opt_state),
                training_state |-> File([epsilon |-> epsilon, step_count |-> step_count])]]
        /\ ret' = [op |-> "save_model", outcome |-> "ok", component |-> "scheduler",
                   version |-> v]
        /\ pre' = Snapshot
        /\ UNCHANGED <<buffer, history, q_network, target_network, opt_state, epsilon,
                       step_count, sched_metadata, sched_ready, netUpdates, trace, sampler>>
        /\ UNCHANGED allocVars

\* a load_model that meets a missing version directory with the parameters of
\* a newly constructed optimizer
SchedLoadFallback(st, dir) ==
    IF ~dir.exists
      THEN [outcome |-> "ok",
            st |-> [st EXCEPT !.q_network = [i \in 1..NParams |-> 0],
                              !.target_network = [i \in 1..NParams |-> 0],
                              !.epsilon = EpsilonInit]]
      ELSE [outcome |-> "ok",
            st |-> [st EXCEPT !.q_network = dir.q_network.data,
                              !.target_network = dir.target_network.data,
                              !.opt_state = dir.optimizer.data,
                              !.epsilon = dir.training_state.data.epsilon,
                              !.step_count = dir.training_state.data.step_count,
                              !.metadata = dir.metadata.data]]

\* SchedulingOptimizer.load_model on the fields st and the version directory
\* dir: the fields afterwards and how the call ended. The files are read in
\* the order of the code, and a missing file raises where it is read
SchedLoad(st, dir) ==
    IF ~dir.exists THEN [outcome |-> "version_not_found", st |-> st]
    ELSE IF ~dir.q_network.present THEN [outcome |-> "FileNotFoundError", st |-> st]
    ELSE LET s1 == [st EXCEPT !.q_network = dir.q_network.data] IN
    IF ~dir.target_network.present THEN [outcome |-> "FileNotFoundError", st |-> s1]
    ELSE LET s2 == [s1 EXCEPT !.target_network = dir.target_network.data] IN
    IF ~dir.optimizer.present THEN [outcome |-> "FileNotFoundError", st |-> s2]
    ELSE LET s3 == [s2 EXCEPT !.opt_state = dir.optimizer.data] IN
    IF ~dir.training_state.present THEN [outcome |-> "FileNotFoundError", st |-> s3]
    ELSE LET s4 == [s3 EXCEPT !.epsilon = dir.training_state.data.epsilon,
                              !.step_count = dir.training_state.data.step_count] IN
    IF ~dir.metadata.present THEN [outcome |-> "FileNotFoundError", st |-> s4]
    ELSE [outcome |-> "ok", st |-> [s4 EXCEPT !.metadata = dir.metadata.data]]

\* a call of SchedulingOptimizer.load_model(version)
SchedLoadModel(VS) ==
    \E v \in VS :
    \E r \in {SchedLoad(Snapshot, sched_fs[v])} :
        /\ q_network' = r.st.q_network
        /\ target_network' = r.st.target_network
        /\ opt_state' = r.st.opt_state
        /\ epsilon' = r.st.epsilon
        /\ step_count' = r.st.step_count
        /\ sched_metadata' = r.st.metadata
        /\ sched_ready' = (sched_ready \/ r.outcome = "ok")
        /\ ret' = [op |-> "load_model", outcome |-> r.outcome, component |-> "scheduler",
                   version |-> v]
        /\ pre' = Snapshot
        /\ UNCHANGED <<buffer, history, sched_fs, netUpdates, trace, sampler>>
        /\ UNCHANGED allocVars

----------------------------------------------------------------------------
(* ResourceAllocator: train, save_model, load_model *)

\* the parameters _update_policy can leave in a network
NetIds == {1, 2}

\* the actions get_action returns while training: the actor's output plus
\* noise, clamped to [0, 1]
ExploreActions == [1..MaxAgents -> SigmoidVals]

\* ResourceAllocator.train(episodes) for episodes in NS: every episode resets
\* the environment, steps it until done and updates the policy; the
\* environment is left as the last step of the last episode left it (AGS: the
\* agents of that episode, ACTS: the action of that step)
AllocTrain(NS, AGS, ACTS) ==
    \E n \in NS, ags \in AGS, action \in ACTS, a \in NetIds, c \in NetIds :
        /\ agents' = StepAgents(ags, NormalizeAction(action, Len(ags)))
        /\ current_step' = EnvMaxSteps
        /\ actor' = a
        /\ critic' = c
        /\ alloc_metadata' = [kind |-> "trained", training_episodes |-> n]
        /\ alloc_ready' = TRUE
        /\ ret' = [op |-> "train", outcome |-> "ok", component |-> "allocator"]
        /\ pre' = Snapshot
        /\ UNCHANGED <<alloc_fs, updater>>
        /\ UNCHANGED schedVars

\* ResourceAllocator.save_model(version)
AllocSave(VS) ==
    \E v \in VS :
        /\ alloc_fs' = [alloc_fs EXCEPT ![v] =
               [actor |-> File(actor), critic |-> File(critic), metadata |-> File(alloc_metadata),
                exists |-> TRUE]]
        /\ ret' = [op |-> "save_model", outcome |-> "ok", component |-> "allocator",
                   version |-> v]
        /\ pre' = Snapshot
        /\ UNCHANGED <<agents, current_step, actor, critic, alloc_metadata, alloc_ready, updater>>
        /\ UNCHANGED schedVars

\* ResourceAllocator.load_model on the fields st and the version directory dir
AllocLoad(st, dir) ==
    IF ~dir.exists THEN [outcome |-> "version_not_found", st |-> st]
    ELSE IF ~dir.actor.present THEN [outcome |-> "FileNotFoundError", st |-> st]
    ELSE LET s1 == [st EXCEPT !.actor = dir.actor.data] IN
    IF ~dir.critic.present THEN [outcome |-> "FileNotFoundError", st |-> s1]
    ELSE LET s2 == [s1 EXCEPT !.critic = dir.critic.data] IN
    IF ~dir.metadata.present THEN [outcome |-> "FileNotFoundError", st |-> s2]
    ELSE [outcome |-> "ok", st |-> [s2 EXCEPT !.alloc_metadata = dir.metadata.data]]

\* a call of ResourceAllocator.load_model(version)
AllocLoadModel(VS) ==
    \E v \in VS :
    \E r \in {AllocLoad(Snapshot, alloc_fs[v])} :
        /\ actor' = r.st.actor
        /\ critic' = r.st.critic
        /\ alloc_metadata' = r.st.alloc_metadata
        /\ alloc_ready' = (alloc_ready \/ r.outcome = "ok")
        /\ ret' = [op |-> "load_model", outcome |-> r.outcome, component |-> "allocator",
                   version |-> v]
        /\ pre' = Snapshot
        /\ UNCHANGED <<agents, current_step, alloc_fs, updater>>
        /\ UNCHANGED schedVars

----------------------------------------------------------------------------
(* Specification of the replay buffer alone: pushes and samples *)

BufInit == SchedInit /\ AllocInit /\ CallInit

BufNext == StoreExperience(ExperienceSet) \/ SampleCall

SpecBuf == BufInit /\ [][BufNext]_vars

----------------------------------------------------------------------------
(* C1: the number of stored experiences never exceeds the capacity, and the
   buffer always holds exactly the last min(pushes, Capacity) pushed
   experiences in insertion order: a push onto a full buffer evicts the
   earliest-inserted experience still stored and nothing else (strict FIFO). *)
C1_FifoBounded ==
    /\ Len(buffer) <= Capacity
    /\ Len(buffer) = Min(Len(history), Capacity)
    /\ \A i \in 1..Len(buffer) :
           buffer[i] = history[Len(history) - Len(buffer) + i]
    /\ (ret.op = "store_experience" /\ Len(pre.buffer) = Capacity)
           => buffer = Append(Tail(pre.buffer), history[Len(history)])

\* Capacity + 1 pushes have happened and the first pushed experience differs
\* from every experience still stored
C1_Witness ==
    /\ Len(history) = Capacity + 1
    /\ ret.op = "store_experience"
    /\ Len(pre.buffer) = Capacity
    /\ \A i \in 1..Len(buffer) : buffer[i] # history[1]


----------------------------------------------------------------------------
(* Specification of a long run of training steps on a filled buffer, the
   gradient leaving the online network where it is *)

\* how many training steps one behaviour takes
MaxEpsSteps == 925

EpsNext ==
    \/ StoreExperience({e \in ExperienceSet : e.done})
    \/ (netUpdates < MaxEpsSteps /\ TrainStep({q_network}))

SpecEps == BufInit /\ [][EpsNext]_vars

(* C2: epsilon after each train_step is at most epsilon before it, and epsilon
   is never below epsilon_min. *)
C2_EpsilonNonIncreasingAboveFloor ==
    /\ (ret.op = "train_step" => epsilon <= pre.epsilon)
    /\ epsilon >= EpsilonMin

----------------------------------------------------------------------------
(* Specification of the two Q-networks under training steps and soft updates *)

\* how many calls write network parameters in one behaviour
MaxNetUpdates == 2

NetNext ==
    \/ StoreExperience({e \in ExperienceSet : e.done})
    \/ (netUpdates < MaxNetUpdates /\ TrainStep(ParamVecs))
    \/ (netUpdates < MaxNetUpdates /\ SoftUpdateCall)

SpecNet == BufInit /\ [][NetNext]_vars

\* tau * online + (1 - tau) * target, in the arithmetic of the parameters
Polyak(online, target) == RoundDiv(TauNum * online + (TauDen - TauNum) * target, TauDen)

(* C8: _soft_update replaces every target parameter by
   tau * online + (1 - tau) * target of the values held just before the call,
   componentwise, and leaves the online parameters unchanged. *)
C8_SoftUpdateComponentwise ==
    ret.op = "soft_update" =>
        /\ \A i \in 1..NParams :
               target_network[i] = Polyak(pre.q_network[i], pre.target_network[i])
        /\ q_network = pre.q_network

\* a soft update has acted on networks that differ in every parameter, and
\* moved every target parameter
C8_Witness ==
    /\ ret.op = "soft_update"
    /\ \A i \in 1..NParams :
           /\ pre.q_network[i] # pre.target_network[i]
           /\ target_network[i] # pre.target_network[i]

(* C9: the gradient step of train_step writes only the online network: after a
   train_step the target is the soft update of the target held before the call
   towards the new online parameters and nothing else, and a call other than
   train_step, _soft_update and load_model leaves the target as it was. *)
C9_GradientLeavesTarget ==
    /\ (ret.op = "train_step" /\ ret.outcome = "ok") =>
           \A i \in 1..NParams :
               target_network[i] = Polyak(q_network[i], pre.target_network[i])
    /\ ret.op \notin {"train_step", "soft_update", "load_model"} =>
           target_network = pre.target_network
    /\ (ret.op = "train_step" /\ ret.outcome = "empty") =>
           target_network = pre.target_network

\* a train_step has moved the online network to parameters that differ from
\* the target's
C9_Witness ==
    /\ ret.op = "train_step"
    /\ ret.outcome = "ok"
    /\ q_network # pre.q_network
    /\ \A i \in 1..NParams : q_network[i] # pre.target_network[i]


----------------------------------------------------------------------------
(* Specification of the simulated environment and the allocator's decisions *)

\* how many steps follow one reset in one behaviour
MaxEnvSteps == 2

EnvInit == SchedInit /\ AllocInit /\ CallInit /\ q_network = target_network
           /\ \A i \in 1..NParams : q_network[i] = 0

EnvNext ==
    \/ Reset
    \/ (current_step < MaxEnvSteps /\ Step)

SpecEnv == EnvInit /\ [][EnvNext]_vars

\* the first n components of the action, clipped to [0, 1] as the claims read it
ClippedPrefix(action, n) == [i \in 1..Min(n, Len(action)) |-> Clip01(action[i])]

AllZero(xs) == \A i \in 1..Len(xs) : xs[i] = R(0)

InUnit(x) == RLe(R(0), x) /\ RLe(x, R(1))

(* C4 as claimed: for every action vector that is not all-zero the normalized
   weights each lie in [0,1] and sum to 1; for an all-zero action every agent
   receives zero bandwidth. *)
C4_NonZeroActionSumsToOne ==
    (ret.op = "step" /\ Len(agents) > 0) =>
        /\ ~AllZero(ret.action) =>
               /\ \A i \in 1..Len(ret.weights) : InUnit(ret.weights[i])
               /\ RSum(ret.weights) = R(1)
        /\ AllZero(ret.action) => AllZero(Bandwidths(agents))

(* C4 amended: whenever the first len(agents) components of the action, clipped
   to [0,1], have a positive sum, the normalized weights each lie in [0,1] and
   sum to 1; whenever those clipped components are all zero, every agent
   receives zero bandwidth. *)
C4_PositiveSumNormalized ==
    (ret.op = "step" /\ Len(agents) > 0) =>
        LET clipped == ClippedPrefix(ret.action, Len(agents)) IN
        /\ RLt(R(0), RSum(clipped)) =>
               /\ Len(ret.weights) = Len(agents)
               /\ \A i \in 1..Len(ret.weights) : InUnit(ret.weights[i])
               /\ RSum(ret.weights) = R(1)
        /\ AllZero(clipped) => AllZero(Bandwidths(agents))

\* a step has normalized an action whose clipped components are unequal,
\* positive and do not sum to 1
C4_Witness ==
    /\ ret.op = "step"
    /\ Len(agents) = 2
    /\ RLt(R(1), RSum(ClippedPrefix(ret.action, 2)))
    /\ ret.weights[1] # ret.weights[2]
    /\ RLt(R(0), ret.weights[1])

(* C5: after every step the sum of all agents' current_bandwidth is at most
   total_bandwidth_mbps. *)
C5_TotalBandwidthWithinCapacity ==
    ret.op = "step" => RLe(RSum(Bandwidths(agents)), R(TotalBandwidth))


----------------------------------------------------------------------------
(* Specification of the allocator's decisions *)

PlanNext == AllocateResources(SuppliedAgents, ActorOutputs) \/ FairnessCall

SpecPlan == EnvInit /\ [][PlanNext]_vars

(* C6: allocate_resources normalizes the actor output as step does, so for the
   same raw action and agents it allocates the bandwidth step allocates, and
   the plan's total_bandwidth_allocated never exceeds total_bandwidth_mbps. *)
C6_PlanNormalizedAsStep ==
    ret.op = "allocate_resources" =>
        /\ \A i \in 1..Len(ret.allocations) :
               ret.allocations[i].bandwidth_mbps =
                   RMul(NormalizeAction(ret.action, Len(ret.agents))[i], R(TotalBandwidth))
        /\ RLe(ret.total_bandwidth_allocated, R(TotalBandwidth))

AllEqual(xs) == \A i, j \in 1..Len(xs) : xs[i] = xs[j]

(* C7: the fairness score is in [0,1] for every list of allocations, and is
   exactly 1.0 when the list has at most one allocation, when all allocations
   have the same bandwidth, or when the mean bandwidth is zero. *)
C7_FairnessInUnitInterval ==
    ret.op \in {"allocate_resources", "fairness_score"} =>
        LET bws == PlanBandwidths(ret.allocations) IN
        /\ 0 <= ret.fairness_score
        /\ ret.fairness_score <= FScale
        /\ (Len(bws) <= 1 \/ AllEqual(bws) \/ RSum(bws) = R(0))
               => ret.fairness_score = FScale


----------------------------------------------------------------------------
(* Specification of the two optimizers as a service: training, persistence
   and decisions, on one choice of each call's inputs *)

ServiceNext ==
    \/ SchedTrain({2}, {[i \in 1..NParams |-> ParamScale]})
    \/ SchedSave({"v1"})
    \/ SchedLoadModel(Versions)
    \/ GetOptimalSchedule({9}, {"low"})
    \/ AllocTrain({1}, {<<NewAgent(0, CHOOSE t \in AgentTemplates : t.priority = "high")>>},
                  {[i \in 1..MaxAgents |-> R(1)]})
    \/ AllocSave({"v1"})
    \/ AllocLoadModel(Versions)
    \/ AllocateResources({<<>>}, {[i \in 1..MaxAgents |-> R(1)]})

SpecService == EnvInit /\ [][ServiceNext]_vars

(* C3: on a freshly constructed optimizer on which neither train nor
   load_model has completed, allocate_resources and get_optimal_schedule fail
   with a not-ready error and return no plan and no decision. *)
C3_NotReadyBeforeTraining ==
    /\ (ret.op = "allocate_resources" /\ ~alloc_ready) => ret.outcome = "not_ready"
    /\ (ret.op = "get_optimal_schedule" /\ ~sched_ready) => ret.outcome = "not_ready"

(* C10: load_model of a version whose directory does not exist fails with
   'version not found', on the allocator and on the scheduler, and leaves the
   parameters, epsilon, step_count and the metadata as they were. *)
C10_MissingVersionFailsFast ==
    /\ (ret.op = "load_model" /\ ret.component = "scheduler"
            /\ ~sched_fs[ret.version].exists) =>
           /\ ret.outcome = "version_not_found"
           /\ Snapshot = pre
    /\ (ret.op = "load_model" /\ ret.component = "allocator"
            /\ ~alloc_fs[ret.version].exists) =>
           /\ ret.outcome = "version_not_found"
           /\ Snapshot = pre

\* the scheduler, trained away from its saved version, was asked for a version
\* that was never saved, while the allocator holds a saved version too
C10_Witness ==
    /\ ret.op = "load_model"
    /\ ret.component = "scheduler"
    /\ ret.outcome = "version_not_found"
    /\ sched_fs["v1"].exists
    /\ sched_fs["v1"].q_network.data # q_network
    /\ alloc_fs["v1"].exists
    /\ q_network # [i \in 1..NParams |-> 0]

----------------------------------------------------------------------------
(* SchedulingOptimizer._calculate_reward *)

\* the hour offsets a scheduling decision is an index of: range(24)
ActionSpace == 0..23

\* the actions _calculate_reward is called with
RewardActions == {0, 20}

\* transfer_result: success, the two durations in minutes (positive; on time,
\* late, and late beyond the cap of the penalty), the throughput in Mbps
\* (below 10, above 50, above 100), and the priority
TransferResults ==
    [success : BOOLEAN,
     expected_duration_minutes : {60},
     actual_duration_minutes : {30, 90, 300},
     throughput_mbps : {5, 75, 150},
     priority : Priorities]

\* network_state['congestion_score'], below 30 and above 80
CongestionScores == {20, 90}

\* datetime.now().hour when the reward is calculated
RewardHours == {9, 22}

\* a lookup of the outcome under a key transfer_result never has: every
\* transfer counts as failed
BaseRewardIgnoringSuccess(result) == R(-20)

\* base reward for a successful transfer, base penalty for a failed one
BaseReward(result) == IF result.success THEN R(10) ELSE R(-20)

\* reward for meeting the expected duration, else a penalty of at most 15
DurationReward(result) ==
    LET expected == R(result.expected_duration_minutes)
        actual == R(result.actual_duration_minutes)
    IN IF RLe(actual, expected) THEN R(5)
       ELSE RSub(R(0), PyMin(RMul(RDiv(RSub(actual, expected), expected), R(10)), R(15)))

\* reward for high throughput, penalty for a very low one
ThroughputReward(result) ==
    IF result.throughput_mbps > 100 THEN R(3)
    ELSE IF result.throughput_mbps > 50 THEN R(1)
    ELSE IF result.throughput_mbps < 10 THEN R(-5)
    ELSE R(0)

\* penalty for scheduling during high congestion, bonus for a quiet network
CongestionReward(congestion_score) ==
    IF congestion_score > 80 THEN R(-5)
    ELSE IF congestion_score < 30 THEN R(2)
    ELSE R(0)

\* target_hour = (current_hour + action) % 24 and the off-peak terms of a
\* transfer that is not critical
OffPeakReward(action, priority, current_hour) ==
    LET target_hour == (current_hour + action) % 24 IN
    IF priority = "critical" THEN R(0)
    ELSE IF 9 <= target_hour /\ target_hour <= 17 THEN R(-2)
    ELSE IF 22 <= target_hour \/ target_hour <= 6 THEN R(3)
    ELSE R(0)

\* the priority-based adjustments
PriorityReward(action, priority) ==
    IF priority = "critical" /\ action > 2 THEN R(-10)
    ELSE IF priority = "low" /\ action = 0 THEN R(-3)
    ELSE R(0)

\* SchedulingOptimizer._calculate_reward(action, transfer_result, network_state)
\* when datetime.now().hour is current_hour
CalculateReward(action, result, congestion_score, current_hour) ==
    RSum(<<BaseReward(result), DurationReward(result), ThroughputReward(result),
           CongestionReward(congestion_score),
           OffPeakReward(action, result.priority, current_hour),
           PriorityReward(action, result.priority)>>)

\* a call of _calculate_reward
CalculateRewardCall ==
    \E action \in RewardActions, result \in TransferResults,
       congestion_score \in CongestionScores, current_hour \in RewardHours :
        /\ ret' = [action |-> action,
                   reward |-> CalculateReward(action, result, congestion_score, current_hour),
                   op |-> "calculate_reward",
                   outcome |-> "ok", congestion_score |-> congestion_score,
                   current_hour |-> current_hour,
                   transfer_result |-> result]
        /\ pre' = Snapshot
        /\ UNCHANGED <<schedVars, allocVars>>

----------------------------------------------------------------------------
(* Specification of the reward of scheduling decisions *)

RewardNext == CalculateRewardCall

SpecReward == EnvInit /\ [][RewardNext]_vars

\* a transfer that succeeded, finished within its expected duration and had a
\* throughput above 100 Mbps
GoodTransfer(result) ==
    /\ result.success
    /\ result.actual_duration_minutes <= result.expected_duration_minutes
    /\ result.throughput_mbps > 100

(* C11: the reward of a transfer that succeeded, finished within its expected
   duration and had throughput above 100 Mbps is strictly greater than the
   reward of every failed transfer with the same action, network state,
   priority and current hour. *)
C11_GoodTransferBeatsFailed ==
    (ret.op = "calculate_reward" /\ GoodTransfer(ret.transfer_result)) =>
        \A failed \in TransferResults :
            (~failed.success /\ failed.priority = ret.transfer_result.priority) =>
                RLt(CalculateReward(ret.action, failed, ret.congestion_score,
                                    ret.current_hour),
                    ret.reward)

\* the reward of a good transfer that every common term counts against: a
\* delayed critical transfer on a congested network
C11_Witness ==
    /\ ret.op = "calculate_reward"
    /\ GoodTransfer(ret.transfer_result)
    /\ ret.transfer_result.priority = "critical"
    /\ ret.action > 2
    /\ ret.congestion_score > 80
    /\ ret.reward = R(3)

----------------------------------------------------------------------------
(* Specification of the scheduling decisions *)

ScheduleNext == GetOptimalSchedule(Times, Priorities)

SpecSchedule == EnvInit /\ [][ScheduleNext]_vars

\* business hours, as get_optimal_schedule tests them
BusinessHour(hour) == 9 <= hour /\ hour <= 17

(* C12: get_optimal_schedule returns action 0 for a critical or high priority;
   for a low priority during business hours it returns a non-zero delay whose
   scheduled hour is outside 9..17; the action is always in 0..23 and
   scheduled_time is current_time plus action hours. *)
C12_PriorityRulesOffPeak ==
    ret.op = "get_optimal_schedule" =>
        /\ ret.priority \in {"critical", "high"} => ret.action = 0
        /\ (ret.priority = "low" /\ BusinessHour(ret.current_time % 24)) =>
               /\ ret.action # 0
               /\ ~BusinessHour(ret.scheduled_hour)
        /\ ret.action \in ActionSpace
        /\ ret.scheduled_time = ret.current_time + ret.action

(* C13: get_optimal_schedule is deterministic: every call with the current
   time and the priority of the last call returns the action and the
   scheduled_time the last call returned. *)
C13_ScheduleDeterministic ==
    ret.op = "get_optimal_schedule" =>
        \A a \in ScheduleActions(ret.current_time % 24, ret.priority) :
            /\ a = ret.action
            /\ ret.current_time + a = ret.scheduled_time

----------------------------------------------------------------------------
(* C14: allocate_resources is deterministic: every call with the agents and
   the system metrics of the last call, on the same actor parameters, returns
   the allocations the last call returned, whatever the dropout masks drawn by
   the actor and the hour read from the wall clock by _agents_to_state. *)
C14_AllocateDeterministic ==
    ret.op = "allocate_resources" =>
        \A out \in ActorOutputs :
            Allocations(ret.agents, out, R(TotalBandwidth)) = ret.allocations

----------------------------------------------------------------------------
(* C19: sample does not remove or modify stored experiences: the buffer after a
   sample is the buffer before it, in length, contents and order, and every
   stored experience is the experience that was pushed. *)
C19_SampleLeavesBuffer ==
    /\ ret.op = "sample" => buffer = pre.buffer
    /\ \A i \in 1..Len(buffer) :
           \E j \in 1..Len(history) : buffer[i] = history[j]
    /\ (ret.op = "sample" /\ ret.outcome = "ok") =>
           \A i \in 1..ret.size : \E j \in 1..Len(buffer) : ret.batch[i] = buffer[j]

\* a sample of two experiences has returned from a full buffer
C19_Witness ==
    /\ ret.op = "sample"
    /\ ret.outcome = "ok"
    /\ ret.size = BatchSize
    /\ Len(buffer) = Capacity
    /\ ret.batch[1] # ret.batch[2]

----------------------------------------------------------------------------
(* Specification of producers and the learner running concurrently on the
   replay buffer *)

ConcBufNext ==
    \/ StoreExperience(ExperienceSet)
    \/ SampleBegin
    \/ SamplePick
    \/ SampleEnd

SpecConcBuf == EnvInit /\ [][ConcBufNext]_vars

(* C15: pushes and samples are serialized: no push executes between the start
   and the end of a sample, so the buffer a sample ends on is the buffer it
   started on. *)
C15_PushExcludedDuringSample ==
    /\ ret.op = "store_experience" => sampler.pc = "idle"
    /\ (ret.op = "sample" /\ ret.outcome = "ok") => ret.started_on = buffer

----------------------------------------------------------------------------
(* ResourceAllocator._update_policy step by step, as a trainer thread runs it
   while other threads call allocate_resources: every optimizer step writes
   the parameters of the network in place, the network get_action reads *)

\* self.k_epochs = 4
KEpochs == 4

\* _update_policy starts: the tensors and the discounted rewards are built
UpdatePolicyBegin ==
    /\ updater.pc = "idle"
    /\ updater' = [pc |-> "running", epoch |-> 0, next |-> "actor", applied |-> 0]
    /\ ret' = [op |-> "update_policy", outcome |-> "running", applied |-> 0]
    /\ pre' = Snapshot
    /\ UNCHANGED <<agents, current_step, actor, critic, alloc_metadata, alloc_fs,
                   alloc_ready>>
    /\ UNCHANGED schedVars

\* self.actor_optimizer.step() of one epoch
UpdateActorStep ==
    /\ updater.pc = "running"
    /\ updater.next = "actor"
    /\ \E a \in NetIds : actor' = a
    /\ updater' = [updater EXCEPT !.next = "critic", !.applied = @ + 1]
    /\ ret' = [op |-> "update_policy", outcome |-> "running", applied |-> updater.applied + 1]
    /\ pre' = Snapshot
    /\ UNCHANGED <<agents, current_step, critic, alloc_metadata, alloc_fs, alloc_ready>>
    /\ UNCHANGED schedVars

\* self.critic_optimizer.step() of one epoch; after the last epoch
\* _update_policy returns
UpdateCriticStep ==
    /\ updater.pc = "running"
    /\ updater.next = "critic"
    /\ \E c \in NetIds : critic' = c
    /\ IF updater.epoch + 1 = KEpochs
         THEN /\ updater' = Idle
              /\ ret' = [op |-> "update_policy", outcome |-> "ok",
                         applied |-> updater.applied + 1]
         ELSE /\ updater' = [updater EXCEPT !.epoch = @ + 1, !.next = "actor",
                                            !.applied = @ + 1]
              /\ ret' = [op |-> "update_policy", outcome |-> "running",
                         applied |-> updater.applied + 1]
    /\ pre' = Snapshot
    /\ UNCHANGED <<agents, current_step, actor, alloc_metadata, alloc_fs, alloc_ready>>
    /\ UNCHANGED schedVars

----------------------------------------------------------------------------
(* Specification of inference running concurrently with a policy update *)

ConcParamsNext ==
    \/ UpdatePolicyBegin
    \/ UpdateActorStep
    \/ UpdateCriticStep
    \/ AllocateResources(SuppliedAgents, {[i \in 1..MaxAgents |-> Frac(1, 2)]})

SpecConcParams == EnvInit /\ [][ConcParamsNext]_vars

(* C16: an inference call never reads the parameters while only part of an
   update has been applied: when allocate_resources runs, either no update is
   in progress or the update in progress has written nothing yet. *)
C16_InferenceSeesWholeUpdate ==
    ret.op = "allocate_resources" =>
        \/ updater.pc = "idle"
        \/ updater.applied = 0

----------------------------------------------------------------------------
(* The state encoders *)

\* the concatenation of a sequence of sequences
RECURSIVE Flatten(_)
Flatten(ss) == IF ss = <<>> THEN <<>> ELSE Head(ss) \o Flatten(Tail(ss))

\* sum(agent[field] for agent in agents)
TotalDemand(ags, field) == RSum([i \in 1..Len(ags) |-> ags[i][field]])

\* the simulated system metrics _get_observation draws (cpu_usage in
\* (0.3, 0.8), memory_usage in (0.4, 0.7), network_congestion in (0.2, 0.9)) and
\* the time of day, hour / 24
ObsSystemMetrics ==
    { <<Frac(3, 10), Frac(2, 5), Frac(1, 5), R(0)>>,
      <<Frac(4, 5), Frac(7, 10), Frac(9, 10), Frac(23, 24)>> }

\* the five components of agent slot i (from 1) in _get_observation
ObservationSlot(ags, i) ==
    IF i <= Len(ags)
      THEN <<RDiv(ags[i].current_bandwidth, R(TotalBandwidth)),
             RDiv(ags[i].current_cpu, R(MaxCpuCores)),
             RDiv(ags[i].current_memory, R(MaxMemoryGb)),
             RDiv(ags[i].throughput, R(200)),
             ags[i].success_rate>>
      ELSE <<R(0), R(0), R(0), R(0), R(0)>>

\* ResourceAllocationEnv._get_observation on the agents ags, the simulated
\* system metrics being metrics
GetObservation(ags, metrics) ==
    <<RDiv(R(Len(ags)), R(MaxAgents)),
      RDiv(TotalDemand(ags, "bandwidth_demand"), R(TotalBandwidth)),
      RDiv(TotalDemand(ags, "cpu_demand"), R(MaxCpuCores)),
      RDiv(TotalDemand(ags, "memory_demand"), R(MaxMemoryGb))>>
    \o Flatten([i \in 1..MaxAgents |-> ObservationSlot(ags, i)])
    \o metrics

\* a call of _get_observation, as reset and step end with
GetObservationCall ==
    \E metrics \in ObsSystemMetrics :
        /\ ret' = [op |-> "get_observation", outcome |-> "ok",
                   obs |-> GetObservation(agents, metrics)]
        /\ pre' = Snapshot
        /\ UNCHANGED <<schedVars, allocVars>>

\* the system metrics allocate_resources is called with, in percent (cpu_usage,
\* memory_usage, network_congestion), and the hour of the wall clock
SystemMetrics ==
    { [hour |-> 0, cpu_usage |-> 50, memory_usage |-> 60, network_congestion |-> 50],
      [hour |-> 23, cpu_usage |-> 90, memory_usage |-> 20, network_congestion |-> 100] }

\* the five components of agent slot i (from 1) in _agents_to_state; a supplied
\* agent has no allocation yet and agent.get fills in 0, 0, 0, 0 and 1.0
StateSlot(ags, i) ==
    IF i <= Len(ags)
      THEN <<R(0), R(0), R(0), R(0), R(1)>>
      ELSE <<R(0), R(0), R(0), R(0), R(0)>>

\* ResourceAllocator._agents_to_state(agents, system_metrics)
AgentsToState(ags, metrics) ==
    <<RDiv(R(Len(ags)), R(MaxAgents)),
      RDiv(TotalDemand(ags, "bandwidth_demand"), R(1000)),
      RDiv(TotalDemand(ags, "cpu_demand"), R(16)),
      RDiv(TotalDemand(ags, "memory_demand"), R(64))>>
    \o Flatten([i \in 1..MaxAgents |-> StateSlot(ags, i)])
    \o <<Frac(metrics.cpu_usage, 100), Frac(metrics.memory_usage, 100),
         Frac(metrics.network_congestion, 100), Frac(metrics.hour % 24, 24)>>

\* a call of _agents_to_state
AgentsToStateCall ==
    \E ags \in SuppliedAgents, metrics \in SystemMetrics :
        /\ ret' = [agents |-> ags, state |-> AgentsToState(ags, metrics), op |-> "agents_to_state",
                   outcome |-> "ok"]
        /\ pre' = Snapshot
        /\ UNCHANGED <<schedVars, allocVars>>

\* the state_size the optimizer is configured with: none, fewer than the
\* features, as many, and the default 50
StateSizes == {0, 5, 22, 50}

\* current_time: its hour and its weekday
FeatureTimes == { [hour |-> 10, weekday |-> 2], [hour |-> 23, weekday |-> 6] }

\* network_metrics, with the defaults of the code and under load
NetworkMetrics ==
    { [throughput_mbps |-> R(100), bandwidth_utilization |-> R(50),
       latency_ms |-> R(50), packet_loss_rate |-> Frac(1, 100),
       success_rate_1h |-> R(95), success_rate_24h |-> R(97)],
      [throughput_mbps |-> R(20), bandwidth_utilization |-> R(90),
       latency_ms |-> R(400), packet_loss_rate |-> Frac(1, 20),
       success_rate_1h |-> R(60), success_rate_24h |-> R(80)] }

\* the transfers of a queue
Transfers ==
    { [priority |-> "high", status |-> "queued", size_gb |-> Frac(1, 20)],
      [priority |-> "low", status |-> "active", size_gb |-> R(50)] }

\* how many transfers a queue holds at most
MaxQueue == 2

TransferQueues == UNION { [1..n -> Transfers] : n \in 0..MaxQueue }

\* the transfers of the queue that have the value v in the field field
WithField(queue, field, v) == {i \in 1..Len(queue) : queue[i][field] = v}

\* the size class of a transfer: small below 0.1 GB, medium below 10 GB
SizeClass(size_gb) ==
    IF RLt(size_gb, Frac(1, 10)) THEN "small"
    ELSE IF RLt(size_gb, R(10)) THEN "medium"
    ELSE "large"

\* the transfers of the queue of the size class c
OfSize(queue, c) == {i \in 1..Len(queue) : SizeClass(queue[i].size_gb) = c}

\* padding with zeros, without truncating
PadOnly(features, size) ==
    features \o [i \in 1..(size - Len(features)) |-> R(0)]

\* while len(features) < state_size: features.append(0.0)
\* features = features[:state_size]
PadOrTruncate(features, size) ==
    SubSeq(features \o [i \in 1..(size - Len(features)) |-> R(0)], 1, size)

\* SchedulingOptimizer._extract_state_features with system_metrics at its
\* defaults, for an optimizer of the given state_size
ExtractStateFeatures(time, net, queue, state_size) ==
    LET cpu_usage == R(50)
        memory_usage == R(60)
        network_congestion ==
            RSum(<<RMul(net.bandwidth_utilization, Frac(2, 5)),
                   RMul(PyMin(RDiv(net.latency_ms, R(2)), R(100)), Frac(3, 10)),
                   RMul(RMul(net.packet_loss_rate, R(1000)), Frac(3, 10))>>)
        system_load == RAdd(RMul(cpu_usage, Frac(3, 5)), RMul(memory_usage, Frac(2, 5)))
        features ==
            <<R(time.hour), R(time.weekday),
              IF time.weekday >= 5 THEN R(1) ELSE R(0),
              IF 9 <= time.hour /\ time.hour <= 17 THEN R(1) ELSE R(0),
              net.bandwidth_utilization, net.latency_ms, net.packet_loss_rate,
              net.throughput_mbps,
              cpu_usage, memory_usage,
              network_congestion, system_load,
              net.success_rate_1h, net.success_rate_24h,
              R(Cardinality(WithField(queue, "status", "active"))),
              R(Cardinality(WithField(queue, "status", "queued"))),
              R(Cardinality(WithField(queue, "priority", "high"))),
              R(Cardinality(WithField(queue, "priority", "medium"))),
              R(Cardinality(WithField(queue, "priority", "low"))),
              R(Cardinality(OfSize(queue, "small"))),
              R(Cardinality(OfSize(queue, "medium"))),
              R(Cardinality(OfSize(queue, "large")))>>
    IN PadOrTruncate(features, state_size)

\* a call of _extract_state_features
ExtractStateFeaturesCall ==
    \E time \in FeatureTimes, net \in NetworkMetrics, queue \in TransferQueues,
       state_size \in StateSizes :
        /\ ret' = [state |-> ExtractStateFeatures(time, net, queue, state_size),
                   op |-> "extract_state_features",
                   outcome |-> "ok", queue |-> queue,
                   state_size |-> state_size]
        /\ pre' = Snapshot
        /\ UNCHANGED <<schedVars, allocVars>>

----------------------------------------------------------------------------
(* Specification of the state encoders *)

EncodeNext ==
    \/ Reset
    \/ GetObservationCall
    \/ AgentsToStateCall
    \/ ExtractStateFeaturesCall

SpecEncode == EnvInit /\ [][EncodeNext]_vars

\* the components of agent slot i of an encoded state are all zero
SlotIsZero(state, i) == \A c \in 1..5 : state[4 + 5 * (i - 1) + c] = R(0)

(* C17: _agents_to_state and _get_observation return exactly
   8 + 5 * max_agents components for any number of agents, the slots of absent
   agents filled with zeros, and _extract_state_features returns exactly
   state_size components for any transfer queue and any state_size. *)
C17_EncodersFixedLength ==
    /\ ret.op = "agents_to_state" =>
           /\ Len(ret.state) = 8 + 5 * MaxAgents
           /\ \A i \in (Len(ret.agents) + 1)..MaxAgents : SlotIsZero(ret.state, i)
    /\ ret.op = "get_observation" =>
           /\ Len(ret.obs) = 8 + 5 * MaxAgents
           /\ \A i \in (Len(agents) + 1)..MaxAgents : SlotIsZero(ret.obs, i)
    /\ ret.op = "extract_state_features" => Len(ret.state) = ret.state_size

\* the features of a queue of two transfers were cut to a state_size below the
\* number of features
C17_Witness ==
    /\ ret.op = "extract_state_features"
    /\ ret.state_size = 5
    /\ Len(ret.queue) = MaxQueue
    /\ Len(ret.state) = 5

----------------------------------------------------------------------------
(* Specification of the observations of the environment *)

ObsNext ==
    \/ Reset
    \/ (current_step < MaxEnvSteps /\ Step)
    \/ GetObservationCall

SpecObs == EnvInit /\ [][ObsNext]_vars

(* C18: in every state reachable by reset and step, every component of the
   observation returned by _get_observation is within [0,1], the bounds
   observation_space declares. *)
C18_ObservationInUnitBox ==
    ret.op = "get_observation" =>
        \A i \in 1..Len(ret.obs) : InUnit(ret.obs[i])

----------------------------------------------------------------------------
(* Specification of the episodes of ResourceAllocator.train: every episode
   resets the environment and steps it, for step in range(100), until step
   returns done *)

\* the agents of an episode
EpisodeAgents ==
    { <<NewAgent(0, tpl)>> : tpl \in AgentTemplates }

\* the actions of an episode
EpisodeActions == { [i \in 1..MaxAgents |-> v] : v \in {R(0), Frac(1, 2)} }

\* an episode starts: at the start of training, or when the episode before it
\* has ended
EpisodeReset ==
    /\ ret.op = "init" \/ (ret.op = "step" /\ ret.done)
    /\ ResetTo(EpisodeAgents)

\* a step of the episode's loop: after the reset or after a step that did not
\* return done, and at most 100 of them
EpisodeStep ==
    /\ ret.op = "reset" \/ (ret.op = "step" /\ ~ret.done)
    /\ current_step < 100
    /\ StepWith(EpisodeActions)

EpisodeNext == EpisodeReset \/ EpisodeStep

SpecEpisode == EnvInit /\ [][EpisodeNext]_vars

(* C20: reset sets current_step to 0; each step increments current_step by
   exactly 1; the done flag of a step is false for the first max_steps - 1
   steps after a reset and true at the max_steps-th; no step is taken before
   the first reset or after done without a reset in between. *)
C20_EpisodeLifecycle ==
    /\ ret.op = "reset" => current_step = 0
    /\ ret.op = "step" =>
           /\ current_step = pre.current_step + 1
           /\ current_step <= EnvMaxSteps
           /\ ret.done = (current_step = EnvMaxSteps)
           /\ pre.current_step < EnvMaxSteps
           /\ agents # <<>>
    /\ ret.op = "init" => (agents = <<>> /\ current_step = 0)

\* the max_steps-th step of an episode has returned done
C20_Witness ==
    /\ ret.op = "step"
    /\ ret.done
    /\ current_step = EnvMaxSteps
    /\ pre.current_step = EnvMaxSteps - 1

----------------------------------------------------------------------------
(* Specification of the environment on three agents of bandwidth demand 150,
   100 and 50, in an environment of at least three agent slots *)

\* the priorities reset draws
AgentPriorities == {"high", "medium", "low"}

\* the bandwidth demands of the three agents
ScenarioDemands == <<150, 100, 50>>

\* the agent lists of the scenario: the three demands, any priorities
ScenarioAgents ==
    { [i \in 1..3 |-> NewAgent(i - 1, [priority |-> ps[i],
                                      bandwidth_demand |-> R(ScenarioDemands[i]),
                                      cpu_demand |-> R(2), memory_demand |-> R(4)])]
      : ps \in [1..3 -> AgentPriorities] }

\* the action vectors of the scenario: 1, 1, 1 for the three agents, alone or
\* followed by the component of a fourth slot, and two unequal actions
ScenarioActions ==
    { <<R(1), R(1), R(1)>>, <<R(1), R(1), R(1), R(0)>>, <<R(1), R(1), R(1), R(1)>>,
      <<R(1), R(0), R(0)>>, <<Frac(1, 2), Frac(1, 2), R(1), R(1)>> }

ScenarioNext ==
    \/ ResetTo(ScenarioAgents)
    \/ (current_step < MaxEnvSteps /\ agents # <<>> /\ StepWith(ScenarioActions))

SpecScenario == EnvInit /\ [][ScenarioNext]_vars

\* the step was taken with raw action components 1, 1, 1 for the three agents
EqualRawAction == \A i \in 1..3 : ret.action[i] = R(1)

(* C21: with three agents of bandwidth demand 150, 100 and 50, capacity 1000
   and raw action components 1, 1, 1 for them, step normalizes the weights to
   1/3 each, sets each current_bandwidth to 1000/3, and every agent's reward
   includes the met-demand bonus of 5: it is throughput / 100 times the
   priority multiplier, plus 10 for the success rate of 1, plus 5. *)
C21_EqualActionMeetsDemand ==
    (ret.op = "step" /\ EqualRawAction) =>
        /\ ret.weights = <<Frac(1, 3), Frac(1, 3), Frac(1, 3)>>
        /\ \A i \in 1..3 :
               /\ agents[i].current_bandwidth = Frac(TotalBandwidth, 3)
               /\ RLe(agents[i].bandwidth_demand, agents[i].current_bandwidth)
               /\ ret.agent_rewards[i] =
                      RAdd(RAdd(RMul(RDiv(agents[i].throughput, R(100)),
                                     PriorityMultiplier(agents[i].priority)),
                                R(10)),
                           R(5))

\* the equal action, followed by the component of a fourth slot, was applied to
\* agents of three different priorities
C21_Witness ==
    /\ ret.op = "step"
    /\ EqualRawAction
    /\ Len(ret.action) = 4
    /\ ret.action[4] = R(1)
    /\ agents[1].priority = "high"
    /\ agents[2].priority = "medium"
    /\ agents[3].priority = "low"
    /\ agents[1].throughput = Frac(800, 3)

----------------------------------------------------------------------------
(* C22: every negative or NaN action component is clamped into [0,1] before it
   is used: after every step each weight is a number in [0,1], each agent's
   allocated bandwidth is a number in [0, total_bandwidth_mbps], and no
   agent's reward, and so not the total reward, is NaN. *)
C22_MalformedActionClamped ==
    ret.op = "step" =>
        \A i \in 1..Len(agents) :
            /\ InUnit(ret.weights[i])
            /\ RLe(R(0), agents[i].current_bandwidth)
            /\ RLe(agents[i].current_bandwidth, R(TotalBandwidth))
            /\ ~IsNaN(ret.agent_rewards[i])

----------------------------------------------------------------------------
(* The TD target of train_step *)

\* self.gamma = 0.95 = GammaNum / GammaDen
GammaNum == 95

GammaDen == 100

\* targets are in units of 1 / (ParamScale * GammaDen)
TargetScale == ParamScale * GammaDen

\* nn.Dropout in a network that is never put in eval mode: the hidden
\* activation is kept (and scaled by 1 / (1 - 0.2)) or zeroed
DropoutMasks == BOOLEAN

\* SchedulingDQN.forward on one state: one value per action, a network of
\* one hidden unit over the state feature and one output weight per action
Forward(net, state, keep) ==
    [a \in 1..NParams |-> IF keep THEN RoundDiv(net[a] * (state + 1) * 5, 4) ELSE 0]

\* tensor.max(1)[0] of one row
RECURSIVE MaxUpTo(_, _)
MaxUpTo(q, n) == IF n = 1 THEN q[1] ELSE Max(q[n], MaxUpTo(q, n - 1))

MaxQ(q) == MaxUpTo(q, NParams)

\* a target that keeps the bootstrap term of a terminal transition
TDTargetIgnoringDone(target_net, e, keep) ==
    e.reward * TargetScale + GammaNum * MaxQ(Forward(target_net, e.next_state, keep))

\* rewards + (self.gamma * self.target_network(next_states).max(1)[0] * ~dones)
\* for one transition of the batch
TDTarget(target_net, e, keep) ==
    e.reward * TargetScale
        + GammaNum * MaxQ(Forward(target_net, e.next_state, keep)) * (IF e.done THEN 0 ELSE 1)

\* a call of train_step, the sampled batch and its targets recorded
TrainStepBatch(U) ==
    \E upd \in U :
        /\ Install(TrainStepFn(Cur, upd))
        /\ IF TooFewExperiences(Cur)
             THEN ret' = [op |-> "train_step", outcome |-> "empty"]
             ELSE \E batch \in SampleResults(buffer, BatchSize),
                     masks \in [1..BatchSize -> DropoutMasks] :
                      ret' = [epsilon |-> DecayEpsilon(epsilon), op |-> "train_step",
                              outcome |-> "ok",
                              batch |-> batch, masks |-> masks,
                              targets |-> [i \in 1..BatchSize |->
                                  TDTarget(target_network, batch[i], masks[i])]]
        /\ pre' = Snapshot
        /\ UNCHANGED <<step_count, sched_metadata, sched_fs, sched_ready, sampler>>
        /\ UNCHANGED allocVars

TDNext ==
    \/ (Len(buffer) < Capacity /\ StoreExperience(ExperienceSet))
    \/ (netUpdates < MaxNetUpdates /\ TrainStepBatch({q_network}))

SpecTD == BufInit /\ [][TDNext]_vars

(* C23: the TD target of every sampled transition is
   reward + gamma * (the largest value the target network held before the
   call gives at next_state) when the transition is not terminal, and exactly
   the reward when it is terminal; the online network does not enter it. *)
C23_TargetFromTargetNetwork ==
    (ret.op = "train_step" /\ ret.outcome = "ok") =>
        \A i \in 1..BatchSize :
            LET e == ret.batch[i]
                q == Forward(pre.target_network, e.next_state, ret.masks[i])
            IN /\ e.done => ret.targets[i] = e.reward * TargetScale
               /\ ~e.done =>
                      \E a \in 1..NParams :
                          /\ \A b \in 1..NParams : q[b] <= q[a]
                          /\ ret.targets[i] * GammaDen
                                 = e.reward * TargetScale * GammaDen
                                       + GammaNum * GammaDen * q[a]

\* a batch with a terminal and a non-terminal transition, the target network
\* giving a non-zero value the online network would not give
C23_Witness ==
    /\ ret.op = "train_step"
    /\ ret.outcome = "ok"
    /\ \E i, j \in 1..BatchSize :
           /\ ret.batch[i].done
           /\ ~ret.batch[j].done
           /\ ret.masks[i] /\ ret.masks[j]
           /\ MaxQ(Forward(pre.target_network, ret.batch[i].next_state, TRUE)) > 0
           /\ MaxQ(Forward(pre.target_network, ret.batch[j].next_state, TRUE))
                  # MaxQ(Forward(pre.q_network, ret.batch[j].next_state, TRUE))
           /\ ret.targets[j] # ret.batch[j].reward * TargetScale

----------------------------------------------------------------------------
\* how often x occurs in the sequence s
Count(s, x) == Cardinality({i \in 1..Len(s) : s[i] = x})

(* C24: a train_step that updates the online network makes, in this order, the
   optimizer step, exactly one soft update of the target network and then the
   epsilon update; at no return has the target been soft-updated fewer times
   than the online network has been updated. *)
C24_SoftUpdateEveryStep ==
    /\ (ret.op = "train_step" /\ ret.outcome = "ok") =>
           trace = pre.trace \o <<"optimizer.step", "_soft_update">>
                       \o (IF pre.epsilon > EpsilonMin THEN <<"epsilon_decay">> ELSE <<>>)
    /\ Count(trace, "_soft_update") >= Count(trace, "optimizer.step")

\* the online network has been updated MaxNetUpdates times
C24_Witness ==
    /\ ret.op = "train_step"
    /\ ret.outcome = "ok"
    /\ MaxNetUpdates >= 2
    /\ Count(trace, "optimizer.step") = MaxNetUpdates

(* C28: a train_step called on a store of fewer than batch_size experiences
   returns the empty result and leaves the online and target parameters, the
   optimizer state, epsilon, step_count and the store as they were. *)
C28_ShortStoreNoTraining ==
    (ret.op = "train_step" /\ Len(pre.buffer) < BatchSize) =>
        /\ ret.outcome = "empty"
        /\ q_network = pre.q_network
        /\ target_network = pre.target_network
        /\ opt_state = pre.opt_state
        /\ epsilon = pre.epsilon
        /\ step_count = pre.step_count
        /\ buffer = pre.buffer
        /\ trace = pre.trace

\* train_step has returned on a store that is not empty and one short of a batch
C28_Witness ==
    /\ ret.op = "train_step"
    /\ ret.outcome = "empty"
    /\ Len(pre.buffer) = BatchSize - 1
    /\ Len(pre.buffer) > 0

----------------------------------------------------------------------------
(* The action of a simulated training episode *)

\* tensor.argmax: the first index of the largest value
ArgMax(q) ==
    CHOOSE a \in 1..NParams :
        /\ \A b \in 1..NParams : q[b] <= q[a]
        /\ \A b \in 1..(a - 1) : q[b] < q[a]

\* SchedulingOptimizer._simulate_episode: the action is the one
\* get_optimal_schedule returns for the default priority 'medium', with its
\* 'exploration' flag; the experience is stored with done = True
SimulateEpisode(HS) ==
    \E hour \in HS, e \in EpisodeExperiences :
    \E a \in ScheduleActions(hour, "medium") :
        /\ e.action = a
        /\ Len(history) < MaxPushes
        /\ buffer' = Push(buffer, e)
        /\ history' = Append(history, e)
        /\ ret' = [state |-> e.state, action |-> a, op |-> "simulate_episode",
                   outcome |-> "ok", hour |-> hour, exploration |-> FALSE]
        /\ pre' = Snapshot
        /\ UNCHANGED <<q_network, target_network, opt_state, epsilon, step_count,
                       sched_metadata, sched_fs, sched_ready, netUpdates, trace, sampler>>
        /\ UNCHANGED allocVars

SimNext ==
    \/ SimulateEpisode(0..23)
    \/ (netUpdates < MaxNetUpdates /\ TrainStep(ParamVecs))

SpecSim == BufInit /\ [][SimNext]_vars

(* C25: the action recorded by a simulated training episode is in the action
   space 0..23, and when no exploration was taken it is the argmax of the
   online Q-network's output for the episode's state (the model's output
   index a stands for action a - 1). *)
C25_ActionEpsilonGreedy ==
    ret.op = "simulate_episode" =>
        /\ ret.action \in ActionSpace
        /\ ~ret.exploration =>
               ret.action = ArgMax(Forward(pre.q_network, ret.state, TRUE)) - 1

----------------------------------------------------------------------------
(* ResourceAllocator.get_action *)

\* values of the exploration noise torch.normal(0, 0.1, shape)
NoiseVals == {Frac(-3, 4), Frac(-1, 4), Frac(1, 4), Frac(3, 4)}

\* an exploration path that returns the noisy output as it is
NoisyActionUnclamped(out, noise) ==
    [i \in 1..Len(out) |-> RAdd(out[i], noise[i])]

\* torch.clamp(action_probs + noise, 0, 1)
NoisyAction(out, noise) ==
    [i \in 1..Len(out) |-> Clip01(RAdd(out[i], noise[i]))]

\* ResourceAllocator.get_action(state, deterministic): out is the output of
\* the actor for the state
GetAction(OUTS) ==
    \E out \in OUTS, deterministic \in BOOLEAN, noise \in [1..MaxAgents -> NoiseVals] :
        /\ ret' = [action |-> IF deterministic THEN out ELSE NoisyAction(out, noise),
                   op |-> "get_action",
                   outcome |-> "ok", noise |-> IF deterministic THEN <<>> ELSE noise,
                   deterministic |-> deterministic,
                   actor_output |-> out]
        /\ pre' = Snapshot
        /\ UNCHANGED <<schedVars, allocVars>>

ActNext == GetAction(ActorOutputs)

SpecAct == EnvInit /\ [][ActNext]_vars

(* C26: every component of the action get_action returns is in [0,1], on the
   deterministic path and on the exploration path. *)
C26_ActionInUnitInterval ==
    ret.op = "get_action" =>
        /\ Len(ret.action) = MaxAgents
        /\ \A i \in 1..Len(ret.action) : InUnit(ret.action[i])

\* the exploration path has acted on an output whose noisy value was above 1
\* in one component and below 0 in another
C26_Witness ==
    /\ ret.op = "get_action"
    /\ ~ret.deterministic
    /\ \E i, j \in 1..MaxAgents :
           /\ RLt(R(1), RAdd(ret.actor_output[i], ret.noise[i]))
           /\ RLt(RAdd(ret.actor_output[j], ret.noise[j]), R(0))
           /\ ret.action[i] = R(1)
           /\ ret.action[j] = R(0)

----------------------------------------------------------------------------
(* C27: for a high or critical priority and a delay action greater than 0, the
   priority adjustment of the reward is lower than the priority adjustment of
   action 0 with the same priority. *)
C27_DelayOfUrgentPenalized ==
    (ret.op = "calculate_reward"
        /\ ret.transfer_result.priority \in {"high", "critical"}
        /\ ret.action > 0) =>
        RLt(PriorityReward(ret.action, ret.transfer_result.priority),
            PriorityReward(0, ret.transfer_result.priority))

----------------------------------------------------------------------------
(* Persistence with saves that fail part-way *)

\* a file that is not in the version directory
AbsentFile == [present |-> FALSE]

\* os.makedirs(version_dir) of a new version: the directory without files
EmptySchedDir ==
    [q_network |-> AbsentFile, target_network |-> AbsentFile, metadata |-> AbsentFile,
     exists |-> TRUE, optimizer |-> AbsentFile, training_state |-> AbsentFile]

\* the first k writes of SchedulingOptimizer.save_model into the directory old
SchedSaveFiles(k, old) ==
    [q_network |-> IF k >= 1 THEN File(q_network) ELSE old.q_network,
     target_network |-> IF k >= 2 THEN File(target_network) ELSE old.target_network,
     metadata |-> IF k >= 5 THEN File(sched_metadata) ELSE old.metadata,
     exists |-> TRUE,
     optimizer |-> IF k >= 3 THEN File(opt_state) ELSE old.optimizer,
     training_state |-> IF k >= 4
                          THEN File([epsilon |-> epsilon, step_count |-> step_count])
                          ELSE old.training_state]

\* SchedulingOptimizer.save_model(version) whose write number k + 1 raises
\* (OSError of torch.save or open), for k in KS
SchedSaveInterrupted(VS, KS) ==
    \E v \in VS, k \in KS :
        /\ sched_fs' = [sched_fs EXCEPT ![v] =
               SchedSaveFiles(k, IF sched_fs[v].exists THEN sched_fs[v] ELSE EmptySchedDir)]
        /\ ret' = [op |-> "save_model", outcome |-> "OSError", component |-> "scheduler",
                   version |-> v]
        /\ pre' = Snapshot
        /\ UNCHANGED <<buffer, history, q_network, target_network, opt_state, epsilon,
                       step_count, sched_metadata, sched_ready, netUpdates, trace, sampler>>
        /\ UNCHANGED allocVars

EmptyAllocDir ==
    [actor |-> AbsentFile, critic |-> AbsentFile, metadata |-> AbsentFile, exists |-> TRUE]

\* the first k writes of ResourceAllocator.save_model into the directory old
AllocSaveFiles(k, old) ==
    [actor |-> IF k >= 1 THEN File(actor) ELSE old.actor,
     critic |-> IF k >= 2 THEN File(critic) ELSE old.critic,
     metadata |-> IF k >= 3 THEN File(alloc_metadata) ELSE old.metadata,
     exists |-> TRUE]

\* ResourceAllocator.save_model(version) whose write number k + 1 raises, for
\* k in KS
AllocSaveInterrupted(VS, KS) ==
    \E v \in VS, k \in KS :
        /\ alloc_fs' = [alloc_fs EXCEPT ![v] =
               AllocSaveFiles(k, IF alloc_fs[v].exists THEN alloc_fs[v] ELSE EmptyAllocDir)]
        /\ ret' = [op |-> "save_model", outcome |-> "OSError", component |-> "allocator",
                   version |-> v]
        /\ pre' = Snapshot
        /\ UNCHANGED <<agents, current_step, actor, critic, alloc_metadata, alloc_ready, updater>>
        /\ UNCHANGED schedVars

PersistNext ==
    \/ SchedTrain({2}, {[i \in 1..NParams |-> ParamScale]})
    \/ SchedSave({"v1"})
    \/ SchedSaveInterrupted({"v2"}, {1})
    \/ SchedLoadModel(Versions)
    \/ AllocTrain({1}, {<<NewAgent(0, CHOOSE t \in AgentTemplates : t.priority = "high")>>},
                  {[i \in 1..MaxAgents |-> R(1)]})
    \/ AllocSave({"v1"})
    \/ AllocSaveInterrupted({"v2"}, {1})
    \/ AllocLoadModel(Versions)

SpecPersist == EnvInit /\ [][PersistNext]_vars

(* C29: a load_model that raises, for a missing version directory or a missing
   file in an existing one, leaves the online and target (actor and critic)
   parameters, the optimizer state, epsilon, step_count and the metadata as
   they were before the call. *)
C29_LoadAllOrNothing ==
    (ret.op = "load_model" /\ ret.outcome # "ok") =>
        /\ q_network = pre.q_network
        /\ target_network = pre.target_network
        /\ opt_state = pre.opt_state
        /\ epsilon = pre.epsilon
        /\ step_count = pre.step_count
        /\ sched_metadata = pre.metadata
        /\ actor = pre.actor
        /\ critic = pre.critic
        /\ alloc_metadata = pre.alloc_metadata

----------------------------------------------------------------------------
(* C30: allocate_resources returns one allocation for every supplied agent, in
   the order the agents were supplied, also for more than max_agents agents. *)
C30_OneAllocationPerAgent ==
    ret.op = "allocate_resources" =>
        /\ Len(ret.allocations) = Len(ret.agents)
        /\ \A i \in 1..Len(ret.allocations) :
               ret.allocations[i].agent_id = ret.agents[i].id

====
